---- MODULE Spec2Model ----
(***************************************************************************)
(* GK20A instance memory (nvkm/subdev/instmem/gk20a.c): instance objects   *)
(* backed either by IOMMU-stitched pages or by one coherent DMA buffer,    *)
(* and the PRAMIN window through which they are read and written.          *)
(***************************************************************************)
EXTENDS Integers, Sequences, FiniteSets, TLC

(* ------------------------------------------------------------------ *)
(* Bounds of the model                                                 *)
(* ------------------------------------------------------------------ *)
\* capacity of the IOMMU address heap (imem->mm), in IOMMU pages
MaxHeap == 4
\* physical pages the page allocator can hand out
MaxPhys == 6
\* instance objects that can be alive at once
MaxObjs == 2
\* accesses counted in one trace of the window cache
MaxTrace == 3
\* threads calling rd32/wr32
MaxThreads == 2

(* ------------------------------------------------------------------ *)
(* Program constants                                                   *)
(* ------------------------------------------------------------------ *)
PAGE_SHIFT == 12
\* bit of a GPU address that marks it as resolved through the IOMMU
IOMMU_BIT == 34
\* node->mem->page_shift and the unit of node->mem->size
SMALL_PAGE_SHIFT == 12

NULL == 0

Pow2(n) == 2 ^ n

(* TLC computes with 32-bit integers, and a GPU address has 44 bits.  Every *)
(* byte quantity of the program (an address, a size, an offset) is held as  *)
(* its value divided by 16; counts (pages, IOMMU pages, register values)    *)
(* are held as they are.  The two shifts below go from one to the other.    *)
\* a byte quantity given in bytes
Bytes(b) == b \div 16
\* count << n, a byte quantity
AddrShl(count, n) ==
    IF n >= 4 THEN count * Pow2(n - 4) ELSE count \div Pow2(4 - n)
\* byte quantity >> n, a count
AddrShr(a, n) ==
    IF n >= 4 THEN a \div Pow2(n - 4) ELSE a * Pow2(4 - n)
\* a byte quantity truncated to u32
U32(a) == (a + Pow2(28)) % Pow2(28)
PAGE_SIZE == AddrShl(1, PAGE_SHIFT)
\* the values held fit in 31 bits: no higher bit is ever set
HasBit(x, n) == n < 31 /\ (x \div Pow2(n)) % 2 = 1
SetBit(x, n) == IF HasBit(x, n) THEN x ELSE x + Pow2(n)
ClearBit(x, n) == IF HasBit(x, n) THEN x - Pow2(n) ELSE x
Min(a, b) == IF a < b THEN a ELSE b
Max(a, b) == IF a > b THEN a ELSE b
Range(s) == {s[i] : i \in DOMAIN s}

\* roundup(x, y) of the kernel, on u32
roundup(x, y) == U32(((x + (y - 1)) \div y) * y)

(* ------------------------------------------------------------------ *)
(* Inputs                                                              *)
(* ------------------------------------------------------------------ *)
\* values of device->gpu->iommu.pgshift a platform can configure
IommuPgShifts == {11, 12}
\* lengths of the heap the platform hands over, in IOMMU pages
HeapSizes == {1, MaxHeap}
\* args->size and args->align of a create
ArgSizes == {Bytes(b) : b \in {16, 8192, 16384}}
ArgAligns == {Bytes(b) : b \in {16, 8192}}
\* bus addresses the platform allocator can return
DmaHandles == {Bytes(b) : b \in {1040384, 1044480, 1052672}}
ObjIds == 1..MaxObjs
Threads == 1..MaxThreads
\* byte offsets and values of the accesses
AccessOffsets == {Bytes(b) : b \in {0, 4096}}
Vals == {1, 2}
PhysPages == 1..MaxPhys

(* ------------------------------------------------------------------ *)
(* State                                                               *)
(* ------------------------------------------------------------------ *)
VARIABLES
    domain,         \* imem->domain is set (an IOMMU domain was probed)
    iommu_pgshift,  \* imem->iommu_pgshift
    heap_pages,     \* the length of the heap imem->mm, in IOMMU pages
    mm,             \* imem->mm: the IOMMU pages checked out of the heap
    phys,           \* pages handed out by alloc_page and not yet freed
    iommu,          \* IOMMU page table of imem->domain: IOMMU page -> page
    dma,            \* coherent buffers handed out by dma_alloc_attrs
    objs,           \* the live instance objects
    last,           \* what the last create or destroy did
    addr,           \* imem->addr: the cached PRAMIN window base
    reg1700,        \* the hardware window register 0x001700
    watch,          \* one GPU address, whose contents are followed
    vram,           \* the words of memory an access to it can land on
    lock,           \* imem->lock: the thread holding it, or NULL
    pc,             \* where each thread stands in rd32/wr32
    loc,            \* the locals of each thread's call
    suspended,      \* fini has run and init has not run again
    shadow,         \* last value a write32 to the watched address gave
    ret32,          \* the last read32 of the watched address after that
    trace,          \* the accesses since the window cache was invalidated
    mm_mutex,       \* imem->mm_mutex: the thread holding it, or NULL
    teardown,       \* where each thread stands in gk20a_instobj_dtor_iommu
    failed,         \* *pobject of a create that returned an error
    nv40,           \* the nv40 device and its nv04_instmem while it is built
    wfb             \* the statics of nv_wfb, the devices and the last call

allocvars == <<mm, phys, iommu, dma, objs, last>>
winvars == <<addr, reg1700, watch, vram, lock, pc, loc, suspended, shadow,
             ret32, trace>>
cfgvars == <<domain, iommu_pgshift, heap_pages>>
dtorvars == <<mm_mutex, teardown>>
othervars == <<nv40, wfb>>
vars == <<domain, iommu_pgshift, heap_pages, mm, phys, iommu, dma, objs, last,
          addr, reg1700, watch, vram, lock, pc, loc, suspended, shadow,
          ret32, trace, mm_mutex, teardown, failed, nv40, wfb>>

NoObj == [kind |-> "none"]

(* ------------------------------------------------------------------ *)
(* Collaborators: the Region Heap, the page allocator, the IOMMU       *)
(* ------------------------------------------------------------------ *)
\* offsets at which a range of size units fits, aligned to align units
mm_fits(used, size, align) ==
    {s \in 0..(heap_pages - size) :
        /\ align > 0
        /\ s % align = 0
        /\ \A j \in 0..(size - 1) : (s + j) \notin used}

\* nvkm_mm_head: first fit in address order
nvkm_mm_head(used, size, align) ==
    LET fits == mm_fits(used, size, align)
    IN  IF fits = {}
        THEN [ret |-> "ENOSPC", offset |-> 0]
        ELSE [ret |-> "OK",
              offset |-> CHOOSE s \in fits : \A t \in fits : s <= t]

\* nvkm_mm_free: the node's units return to the free list
nvkm_mm_free(used, offset, length) ==
    used \ {u \in 0..(heap_pages - 1) : offset <= u /\ u < offset + length}

\* the i-th (1-based) page alloc_page hands out of the free pool
nth_free(outstanding, i) ==
    LET free == PhysPages \ outstanding
    IN  CHOOSE p \in free : Cardinality({q \in free : q < p}) = i - 1

\* IOMMU pages covered by [iova, iova + size)
iommu_span(iova, size, pgs) ==
    AddrShr(iova, pgs)..AddrShr(iova + size - 1, pgs)

\* iommu_map(domain, iova, page_to_phys(p), size, ...)
iommu_map(tbl, iova, p, size, pgs) ==
    [u \in (DOMAIN tbl) \cup iommu_span(iova, size, pgs) |->
        IF u \in iommu_span(iova, size, pgs) THEN p ELSE tbl[u]]

\* iommu_unmap(domain, iova, size)
iommu_unmap(tbl, iova, size, pgs) ==
    [u \in (DOMAIN tbl) \ iommu_span(iova, size, pgs) |-> tbl[u]]

RECURSIVE map_all(_, _, _, _)
\* the table after mapping pages[1..Len(iovas)] at iovas, in order
map_all(tbl, iovas, pages, pgs) ==
    IF iovas = <<>> THEN tbl
    ELSE map_all(iommu_map(tbl, Head(iovas), Head(pages), PAGE_SIZE, pgs),
                 Tail(iovas), Tail(pages), pgs)

RECURSIVE unmap_all(_, _, _)
\* the table after unmapping PAGE_SIZE at each of iovas, in order
unmap_all(tbl, iovas, pgs) ==
    IF iovas = <<>> THEN tbl
    ELSE unmap_all(iommu_unmap(tbl, Head(iovas), PAGE_SIZE, pgs),
                   Tail(iovas), pgs)

(* ------------------------------------------------------------------ *)
(* gk20a_instobj_ctor_iommu                                            *)
(* ------------------------------------------------------------------ *)
\* An injected fault: which step of a create fails, and at which index.
NoFault == [kind |-> "none", idx |-> 0]
Faults ==
    {NoFault, [kind |-> "dma", idx |-> 0]}
    \cup {[kind |-> k, idx |-> i] : k \in {"page", "map"}, i \in 0..3}

\* index at which the page allocation loop stops: the injected one, the
\* one at which the allocator runs dry, or npages when every page is got
alloc_stop(outstanding, npages, inj) ==
    Min(Min(npages, MaxPhys - Cardinality(outstanding)),
        IF inj.kind = "page" THEN inj.idx ELSE npages)

\* node->pages[] after the allocation loop (NULL where nothing was stored)
alloc_pages(outstanding, npages, inj) ==
    [i \in 1..npages |->
        IF i <= alloc_stop(outstanding, npages, inj)
        THEN nth_free(outstanding, i) ELSE NULL]

\* u32 offset = (r->offset + i) << imem->iommu_pgshift
map_offset(r_offset, i, pgs) == U32(AddrShl(r_offset + i, pgs))

\* while (i-- > 0) { offset -= PAGE_SIZE; iommu_unmap(offset) }
unwind_offsets(offset, i) == [j \in 1..i |-> U32(offset - j * PAGE_SIZE)]

\* free_pages that stops one page short: i < npages - 1
free_pages_short(pages, npages) ==
    LET n == Cardinality({i \in 1..(npages - 1) :
                 \A j \in 1..i : pages[j] # NULL})
    IN  [i \in 1..n |-> pages[i]]

\* free_pages that is not reached when the reservation fails: nothing freed
free_pages_none(pages, npages) == <<>>

\* free_pages: for (i = 0; i < npages && node->pages[i] != NULL; i++)
free_pages(pages, npages) ==
    LET n == Cardinality({i \in 1..npages :
                 \A j \in 1..i : pages[j] # NULL})
    IN  [i \in 1..n |-> pages[i]]

\* index of the iommu_map call that fails, npages when none does
map_stop(npages, inj) ==
    IF inj.kind = "map" THEN Min(inj.idx, npages) ELSE npages

\* a create that leaves the offset of the range without the tag
tag_offset_none(r_offset, pgs) == r_offset

\* r->offset |= BIT(34 - imem->iommu_pgshift)
tag_offset(r_offset, pgs) == SetBit(r_offset, IOMMU_BIT - pgs)

\* r->offset &= ~BIT(34 - imem->iommu_pgshift)
untag_offset(r_offset, pgs) == ClearBit(r_offset, IOMMU_BIT - pgs)

\* range reserved at release_area / left reserved on return
release_area(used, r_offset, length) == nvkm_mm_free(used, r_offset, length)

\* the constructor from the map loop on: node->pages[] is filled as far as
\* the allocation loop went, and head is what nvkm_mm_head answered
ctor_iommu_map(mm0, phys0, tbl0, pgs, npages, inj, pages, head) ==
    LET phys1 == phys0 \cup (Range(pages) \ {NULL})
        r     == head.offset
        mm1   == mm0 \cup {u \in 0..(heap_pages - 1) : r <= u /\ u < r + npages}
        stop  == map_stop(npages, inj)
        iovas == [i \in 1..stop |-> map_offset(r, i - 1, pgs)]
    IN  IF Len(SelectSeq(pages, LAMBDA p : p # NULL)) < npages \/ head.ret # "OK"
        THEN [ret |-> IF Len(SelectSeq(pages, LAMBDA p : p # NULL)) < npages
                      THEN "ENOMEM" ELSE head.ret,
              mm |-> mm0,
              phys |-> phys1 \ Range(free_pages(pages, npages)),
              iommu |-> tbl0, mapped |-> <<>>, unmapped |-> <<>>,
              freed |-> free_pages(pages, npages),
              reserved |-> 0, node |-> NoObj]
        ELSE IF stop < npages
        THEN [ret |-> "EMAP",
              mm |-> release_area(mm1, r, npages),
              phys |-> phys1 \ Range(free_pages(pages, npages)),
              iommu |-> unmap_all(map_all(tbl0, iovas, pages, pgs),
                            unwind_offsets(map_offset(r, stop, pgs), stop),
                            pgs),
              mapped |-> iovas,
              unmapped |-> unwind_offsets(map_offset(r, stop, pgs), stop),
              freed |-> free_pages(pages, npages),
              reserved |-> npages, node |-> NoObj]
        ELSE [ret |-> "OK", mm |-> mm1, phys |-> phys1,
              iommu |-> map_all(tbl0, iovas, pages, pgs),
              mapped |-> iovas, unmapped |-> <<>>, freed |-> <<>>,
              reserved |-> npages,
              node |-> [kind |-> "iommu",
                        pages |-> pages,
                        r_offset |-> tag_offset(r, pgs),
                        r_length |-> npages,
                        regions |-> 1,
                        cpuaddr |-> NULL,
                        handle |-> 0,
                        mem_offset |-> AddrShl(tag_offset(r, pgs), pgs)]]

gk20a_instobj_ctor_iommu(mm0, phys0, tbl0, pgs, npages, align, inj) ==
    ctor_iommu_map(mm0, phys0, tbl0, pgs, npages, inj,
                   alloc_pages(phys0, npages, inj),
                   nvkm_mm_head(mm0, npages, AddrShr(align, pgs)))

(* ------------------------------------------------------------------ *)
(* gk20a_instobj_ctor_dma                                              *)
(* ------------------------------------------------------------------ *)
\* bus addresses dma_alloc_attrs may return for a buffer of size bytes
dma_free_at(bufs, size) ==
    {h \in DmaHandles :
        \A b \in bufs : h + size <= b.handle \/ b.handle + b.size <= h}

\* dma_alloc_attrs(dev, size, &handle, ...)
dma_alloc_attrs(bufs, size, h) == bufs \cup {[handle |-> h, size |-> size]}

\* dma_free_attrs(dev, size, cpuaddr, handle, ...)
dma_free_attrs(bufs, size, h) == {b \in bufs : b.handle # h}

\* node->handle & (align - 1), align being a power of two
misaligned(h, align) == h % align # 0

\* a constructor that refuses a misaligned buffer and gives it back
ctor_dma_strict(dma0, npages, align, inj, h) ==
    IF inj.kind = "dma" \/ h \notin dma_free_at(dma0, AddrShl(npages, PAGE_SHIFT))
    THEN [ret |-> "ENOMEM", dma |-> dma0, warn |-> FALSE, node |-> NoObj]
    ELSE IF misaligned(h, align)
    THEN [ret |-> "EINVAL", dma |-> dma0, warn |-> TRUE, node |-> NoObj]
    ELSE [ret |-> "OK",
          dma |-> dma_alloc_attrs(dma0, AddrShl(npages, PAGE_SHIFT), h),
          warn |-> FALSE,
          node |-> [kind |-> "dma",
                    pages |-> <<>>,
                    r_offset |-> AddrShr(h, 12),
                    r_length |-> AddrShr(AddrShl(npages, PAGE_SHIFT), 12),
                    regions |-> 1,
                    cpuaddr |-> 1,
                    handle |-> h,
                    mem_offset |-> h]]

gk20a_instobj_ctor_dma(dma0, npages, align, inj, h) ==
    IF inj.kind = "dma" \/ h \notin dma_free_at(dma0, AddrShl(npages, PAGE_SHIFT))
    THEN [ret |-> "ENOMEM", dma |-> dma0, warn |-> FALSE, node |-> NoObj]
    ELSE [ret |-> "OK",
          dma |-> dma_alloc_attrs(dma0, AddrShl(npages, PAGE_SHIFT), h),
          warn |-> misaligned(h, align),
          node |-> [kind |-> "dma",
                    pages |-> <<>>,
                    r_offset |-> AddrShr(h, 12),
                    r_length |-> AddrShr(AddrShl(npages, PAGE_SHIFT), 12),
                    regions |-> 1,
                    cpuaddr |-> 1,
                    handle |-> h,
                    mem_offset |-> h]]

(* ------------------------------------------------------------------ *)
(* gk20a_instobj_ctor                                                  *)
(* ------------------------------------------------------------------ *)
\* size = max(roundup(args->size, PAGE_SIZE), PAGE_SIZE), and align
round_to_page(x) == Max(roundup(x, PAGE_SIZE), PAGE_SIZE)

\* the constructor gk20a_instobj_ctor calls: if (imem->domain) ...
ctor_backend(dom) == IF dom THEN "iommu" ELSE "dma"

\* a destructor that tests the domain the wrong way round
dtor_backend_inverted(dom) == IF dom THEN "dma" ELSE "iommu"

\* the destructor gk20a_instobj_dtor calls: if (imem->domain) ...
dtor_backend(dom) == IF dom THEN "iommu" ELSE "dma"

\* node->mem = &node->_mem and the fields set after a successful backend
finish_node(node, size) ==
    node @@ [mem_size |-> AddrShr(size, SMALL_PAGE_SHIFT),
             mem_page_shift |-> SMALL_PAGE_SHIFT,
             addr |-> node.mem_offset,
             size |-> size]

(* ------------------------------------------------------------------ *)
(* gk20a_instobj_dtor_iommu, gk20a_instobj_dtor_dma                    *)
(* ------------------------------------------------------------------ *)
\* addresses the teardown loop passes to iommu_unmap
dtor_offsets(node, pgs) ==
    [i \in 1..node.mem_size |->
        U32(AddrShl(untag_offset(node.r_offset, pgs) + (i - 1), pgs))]

\* pages the teardown loop passes to __free_page
dtor_pages(node) ==
    [i \in 1..Min(node.mem_size, Len(node.pages)) |-> node.pages[i]]

\* a teardown that unmaps and frees the pages but keeps the range
dtor_iommu_keeps_range(mm0, phys0, tbl0, pgs, node) ==
    IF node.regions = 0
    THEN [mm |-> mm0, phys |-> phys0, iommu |-> tbl0,
          unmapped |-> <<>>, freed |-> <<>>]
    ELSE [mm |-> mm0,
          phys |-> phys0 \ Range(dtor_pages(node)),
          iommu |-> unmap_all(tbl0, dtor_offsets(node, pgs), pgs),
          unmapped |-> dtor_offsets(node, pgs),
          freed |-> dtor_pages(node)]

gk20a_instobj_dtor_iommu(mm0, phys0, tbl0, pgs, node) ==
    IF node.regions = 0
    THEN [mm |-> mm0, phys |-> phys0, iommu |-> tbl0,
          unmapped |-> <<>>, freed |-> <<>>]
    ELSE [mm |-> nvkm_mm_free(mm0, untag_offset(node.r_offset, pgs),
                              node.r_length),
          phys |-> phys0 \ Range(dtor_pages(node)),
          iommu |-> unmap_all(tbl0, dtor_offsets(node, pgs), pgs),
          unmapped |-> dtor_offsets(node, pgs),
          freed |-> dtor_pages(node)]

gk20a_instobj_dtor_dma(dma0, node) ==
    IF node.cpuaddr = NULL
    THEN dma0
    ELSE dma_free_attrs(dma0, AddrShl(node.mem_size, PAGE_SHIFT), node.handle)

(* ------------------------------------------------------------------ *)
(* Create and destroy                                                  *)
(* ------------------------------------------------------------------ *)
EmptyTable == [u \in {} |-> NULL]

\* pages held by the live objects
PagesHeld ==
    Cardinality(UNION {{<<o, i>> : i \in 1..objs[o].mem_size} :
                          o \in {x \in DOMAIN objs : objs[x] # NoObj}})

Resources == [mm |-> mm, phys |-> phys, iommu |-> iommu, dma |-> dma,
              held |-> PagesHeld]

NoOp == [op |-> "none", obj |-> 0, ret |-> "OK", kind |-> "none",
         npages |-> 0, align |-> 0, inj |-> NoFault, mapped |-> <<>>,
         unmapped |-> <<>>, freed |-> <<>>, reserved |-> 0, run |-> 0,
         handle |-> NULL, warn |-> FALSE,
         pre |-> [mm |-> {}, phys |-> {}, iommu |-> EmptyTable, dma |-> {},
                  held |-> 0]]

Live == {o \in ObjIds : objs[o] # NoObj}

\* how far the sequence create, refused create, destroy, create has come
\* in a heap that is one page long
reuse_run(run, op, ret) ==
    IF heap_pages # 1 THEN 0
    ELSE IF op = "create" /\ ret = "OK" THEN (IF run = 3 THEN 4 ELSE 1)
    ELSE IF op = "create" /\ ret = "ENOSPC" /\ run \in {1, 2} THEN 2
    ELSE IF op = "destroy" /\ run = 2 THEN 3
    ELSE 0

\* gk20a_instobj_ctor on the IommuMapped backend
CreateIommu(o, size, align, inj) ==
    LET npages == AddrShr(round_to_page(size), PAGE_SHIFT)
    IN  /\ ctor_backend(domain) = "iommu"
        /\ inj.kind \in {"none", "page", "map"}
        /\ inj.idx < npages
        /\ \E res \in {gk20a_instobj_ctor_iommu(mm, phys, iommu,
                iommu_pgshift, npages, round_to_page(align), inj)} :
               /\ mm' = res.mm
               /\ phys' = res.phys
               /\ iommu' = res.iommu
               /\ dma' = dma
               /\ objs' = IF res.ret = "OK"
                          THEN [objs EXCEPT ![o] =
                                   finish_node(res.node, round_to_page(size))]
                          ELSE objs
               /\ last' = [op |-> "create", obj |-> o, ret |-> res.ret,
                           kind |-> "iommu", npages |-> npages,
                           align |-> round_to_page(align), inj |-> inj,
                           mapped |-> res.mapped, unmapped |-> res.unmapped,
                           freed |-> res.freed, reserved |-> res.reserved,
                           run |-> reuse_run(last.run, "create", res.ret),
                           handle |-> NULL, warn |-> FALSE,
                           pre |-> Resources]

\* gk20a_instobj_ctor on the ContiguousHost backend
CreateDma(o, size, align, inj, h) ==
    LET npages == AddrShr(round_to_page(size), PAGE_SHIFT)
    IN  /\ ctor_backend(domain) = "dma"
        /\ inj.kind \in {"none", "dma"}
        /\ \E res \in {gk20a_instobj_ctor_dma(dma, npages,
                round_to_page(align), inj, h)} :
               /\ dma' = res.dma
               /\ UNCHANGED <<mm, phys, iommu>>
               /\ objs' = IF res.ret = "OK"
                          THEN [objs EXCEPT ![o] =
                                   finish_node(res.node, round_to_page(size))]
                          ELSE objs
               /\ last' = [op |-> "create", obj |-> o, ret |-> res.ret,
                           kind |-> "dma", npages |-> npages,
                           align |-> round_to_page(align), inj |-> inj,
                           mapped |-> <<>>, unmapped |-> <<>>,
                           freed |-> <<>>, reserved |-> 0, run |-> 0,
                           handle |-> IF inj.kind = "dma" THEN NULL ELSE h,
                           warn |-> res.warn,
                           pre |-> Resources]

\* the handle of the object a create makes: the lowest one free
NewObj == CHOOSE x \in ObjIds \ Live : \A y \in ObjIds \ Live : x <= y

\* bus addresses the platform allocator may answer a create of size bytes
\* with; NULL when it has none
DmaAnswers(size) ==
    LET n == AddrShl(AddrShr(round_to_page(size), PAGE_SHIFT), PAGE_SHIFT)
    IN  IF dma_free_at(dma, n) = {} THEN {NULL} ELSE dma_free_at(dma, n)

\* faults are injected into the requests of the smallest alignment; the
\* others fail only when the heap or an allocator runs out
FaultsFor(align) ==
    IF \A a \in ArgAligns : align <= a THEN Faults ELSE {NoFault}

\* gk20a_instobj_ctor, on the backend that is configured
CreateCall ==
    /\ Live # ObjIds
    /\ \E o \in {NewObj}, size \in ArgSizes, align \in ArgAligns :
          \/ /\ ctor_backend(domain) = "iommu"
             /\ \E inj \in FaultsFor(align) :
                    CreateIommu(o, size, align, inj)
          \/ /\ ctor_backend(domain) = "dma"
             /\ \E inj \in FaultsFor(align), h \in DmaAnswers(size) :
                    CreateDma(o, size, align, inj, h)

Create ==
    /\ CreateCall
    /\ UNCHANGED <<cfgvars, winvars, dtorvars, failed, othervars>>

\* gk20a_instobj_dtor
Destroy ==
    /\ \E o \in Live :
        \E res \in {IF dtor_backend(domain) = "iommu"
                    THEN gk20a_instobj_dtor_iommu(mm, phys, iommu,
                             iommu_pgshift, objs[o])
                    ELSE [unmapped |-> <<>>, freed |-> <<>>]} :
          LET node == objs[o]
              after == last.op = "create" /\ last.ret = "OK" /\ last.obj = o
          IN  /\ IF dtor_backend(domain) = "iommu"
                 THEN /\ mm' = res.mm
                      /\ phys' = res.phys
                      /\ iommu' = res.iommu
                      /\ dma' = dma
                 ELSE /\ dma' = gk20a_instobj_dtor_dma(dma, node)
                      /\ UNCHANGED <<mm, phys, iommu>>
              /\ objs' = [objs EXCEPT ![o] = NoObj]
              /\ last' = [op |-> IF after THEN "create_destroy"
                                 ELSE "destroy",
                          obj |-> o, ret |-> "OK",
                          kind |-> dtor_backend(domain),
                          npages |-> node.mem_size, align |-> 0,
                          inj |-> NoFault,
                          mapped |-> IF after THEN last.mapped ELSE <<>>,
                          unmapped |-> IF dtor_backend(domain) = "iommu"
                                       THEN res.unmapped ELSE <<>>,
                          freed |-> IF dtor_backend(domain) = "iommu"
                                    THEN res.freed ELSE <<>>,
                          reserved |-> node.r_length,
                          run |-> reuse_run(last.run, "destroy", "OK"),
                          handle |-> NULL, warn |-> FALSE,
                          pre |-> IF after THEN last.pre ELSE NoOp.pre]
    /\ UNCHANGED <<cfgvars, winvars, dtorvars, failed, othervars>>

(* ------------------------------------------------------------------ *)
(* gk20a_instobj_dtor, statement by statement, from several threads    *)
(* ------------------------------------------------------------------ *)
NoTeardown == [pc |-> "idle", obj |-> 0, i |-> 0]

\* objects a thread is tearing down
Claimed == {teardown[t].obj : t \in Threads} \ {0}

\* a teardown that takes the mutex before it clears the tag
dtor_lock_point_first == "untag"

\* the statement before which mutex_lock(imem->mm_mutex) is called
dtor_lock_point == "release"

\* thread t stands at the statement step, with the mutex if it is taken there
dtor_at(t, step) ==
    /\ teardown[t].pc = step
    /\ step = dtor_lock_point => mm_mutex = t

\* what a statement of the teardown leaves in last
step_record(t, step) ==
    [step |-> step, locked |-> mm_mutex = t] @@
    [NoOp EXCEPT !.op = "teardown", !.obj = teardown[t].obj,
                 !.kind = "iommu"]

\* gk20a_instobj_dtor up to the test of the regions list; the whole of it
\* on the ContiguousHost backend
DtorEnter(t) ==
    /\ teardown[t].pc = "idle"
    /\ \E o \in Live \ Claimed :
          IF dtor_backend(domain) = "dma"
          THEN /\ dma' = gk20a_instobj_dtor_dma(dma, objs[o])
               /\ objs' = [objs EXCEPT ![o] = NoObj]
               /\ last' = [NoOp EXCEPT !.op = "destroy", !.obj = o,
                                       !.kind = "dma"]
               /\ UNCHANGED <<mm, phys, iommu, teardown>>
          ELSE IF objs[o].regions = 0
          THEN /\ objs' = [objs EXCEPT ![o] = NoObj]
               /\ last' = [NoOp EXCEPT !.op = "destroy", !.obj = o,
                                       !.kind = "iommu"]
               /\ UNCHANGED <<mm, phys, iommu, dma, teardown>>
          ELSE /\ teardown' = [teardown EXCEPT ![t] =
                                  [pc |-> "untag", obj |-> o, i |-> 0]]
               /\ UNCHANGED <<mm, phys, iommu, dma, objs, last>>
    /\ UNCHANGED <<cfgvars, winvars, mm_mutex, failed, othervars>>

\* mutex_lock(imem->mm_mutex)
DtorLock(t) ==
    /\ teardown[t].pc = dtor_lock_point
    /\ mm_mutex = NULL
    /\ mm_mutex' = t
    /\ UNCHANGED <<cfgvars, winvars, allocvars, teardown, failed, othervars>>

\* r->offset &= ~BIT(34 - imem->iommu_pgshift)
DtorUntag(t) ==
    /\ dtor_at(t, "untag")
    /\ objs' = [objs EXCEPT ![teardown[t].obj].r_offset =
                    untag_offset(@, iommu_pgshift)]
    /\ teardown' = [teardown EXCEPT ![t].pc = "unmap"]
    /\ last' = step_record(t, "untag")
    /\ UNCHANGED <<mm, phys, iommu, dma>>
    /\ UNCHANGED <<cfgvars, winvars, mm_mutex, failed, othervars>>

\* iommu_unmap(imem->domain, (r->offset + i) << imem->iommu_pgshift, PAGE_SIZE)
DtorUnmap(t) ==
    /\ dtor_at(t, "unmap")
    /\ iommu' = iommu_unmap(iommu,
                    dtor_offsets(objs[teardown[t].obj],
                                 iommu_pgshift)[teardown[t].i + 1],
                    PAGE_SIZE, iommu_pgshift)
    /\ teardown' = [teardown EXCEPT ![t].pc = "free"]
    /\ last' = step_record(t, "unmap")
    /\ UNCHANGED <<mm, phys, dma, objs>>
    /\ UNCHANGED <<cfgvars, winvars, mm_mutex, failed, othervars>>

\* __free_page(node->pages[i]), and the i++ of the loop
DtorFree(t) ==
    /\ dtor_at(t, "free")
    /\ phys' = phys \ {dtor_pages(objs[teardown[t].obj])[teardown[t].i + 1]}
    /\ teardown' = [teardown EXCEPT
                       ![t].i = @ + 1,
                       ![t].pc = IF teardown[t].i + 1
                                       < objs[teardown[t].obj].mem_size
                                 THEN "unmap" ELSE "release"]
    /\ last' = step_record(t, "free")
    /\ UNCHANGED <<mm, iommu, dma, objs>>
    /\ UNCHANGED <<cfgvars, winvars, mm_mutex, failed, othervars>>

\* nvkm_mm_free(imem->mm, &r)
DtorRelease(t) ==
    /\ teardown[t].pc = "release"
    /\ mm_mutex = t
    /\ mm' = nvkm_mm_free(mm,
                 untag_offset(objs[teardown[t].obj].r_offset, iommu_pgshift),
                 objs[teardown[t].obj].r_length)
    /\ teardown' = [teardown EXCEPT ![t].pc = "unlock"]
    /\ last' = step_record(t, "release")
    /\ UNCHANGED <<phys, iommu, dma, objs>>
    /\ UNCHANGED <<cfgvars, winvars, mm_mutex, failed, othervars>>

\* mutex_unlock(imem->mm_mutex), and nvkm_instobj_destroy
DtorUnlock(t) ==
    /\ teardown[t].pc = "unlock"
    /\ mm_mutex' = NULL
    /\ objs' = [objs EXCEPT ![teardown[t].obj] = NoObj]
    /\ teardown' = [teardown EXCEPT ![t] = NoTeardown]
    /\ UNCHANGED <<mm, phys, iommu, dma, last>>
    /\ UNCHANGED <<cfgvars, winvars, failed, othervars>>

(* ------------------------------------------------------------------ *)
(* gk20a_instobj_dtor on the object of a create that failed            *)
(* ------------------------------------------------------------------ *)
\* the object *pobject names when the backend constructor returned an
\* error: node->mem and node->cpuaddr are the NULL of the zeroed object,
\* node->pages[] holds the pages free_pages has freed
failed_node(op) ==
    [kind |-> op.kind, mem |-> NULL, cpuaddr |-> NULL, pages |-> op.freed]

\* the destructor reads node->mem: gk20a_instobj_dtor_iommu in its first
\* statement, gk20a_instobj_dtor_dma after the test of node->cpuaddr
dtor_reads_mem(kind, node) ==
    IF kind = "iommu" THEN TRUE ELSE node.cpuaddr # NULL

\* what the destructor can do on node: return, or, reading through a NULL
\* node->mem, fault or go on with whatever the read gave
dtor_outcomes(kind, node) ==
    IF dtor_reads_mem(kind, node) /\ node.mem = NULL
    THEN {"fault", "garbage"}
    ELSE {"returns"}

\* gk20a_instobj_ctor returning an error, with *pobject set to the object
CreateFailing ==
    /\ failed = NoObj
    /\ CreateCall
    /\ last'.ret # "OK"
    /\ failed' = failed_node(last')
    /\ UNCHANGED <<cfgvars, winvars, dtorvars, othervars>>

\* gk20a_instobj_dtor on that object
DestroyFailed ==
    /\ failed # NoObj
    /\ \E out \in dtor_outcomes(dtor_backend(domain), failed) :
           last' = [outcome |-> out,
                    reads_unset |-> dtor_reads_mem(dtor_backend(domain),
                                                   failed)
                                    /\ failed.mem = NULL] @@
                   [NoOp EXCEPT !.op = "destroy_failed",
                                !.kind = dtor_backend(domain),
                                !.ret = last.ret,
                                !.pre = Resources]
    /\ failed' = NoObj
    /\ UNCHANGED <<mm, phys, iommu, dma, objs>>
    /\ UNCHANGED <<cfgvars, winvars, dtorvars, othervars>>

(* ------------------------------------------------------------------ *)
(* gk20a_instobj_rd32, gk20a_instobj_wr32                              *)
(* ------------------------------------------------------------------ *)
\* imem->addr = ~0ULL
SENTINEL == -1

\* (node->mem->offset + offset) & 0xffffff00000ULL
window_base(x) == AddrShl(AddrShr(x, 20) % Pow2(24), 20)

\* (node->mem->offset + offset) & 0x000000fffffULL
window_addr(x) == x % AddrShl(1, 20)

\* nvkm_wr32(device, 0x001700, base >> 16)
window_reg(base) == AddrShr(base, 16)

\* the GPU address a data access at 0x700000 + a reaches
pramin_target(reg, a) == AddrShl(reg, 16) + a

\* a test of the cached window that never trusts the cache
needs_repoint_always(cached, base) == TRUE

\* if (unlikely(imem->addr != base))
needs_repoint(cached, base) == cached # base

\* spin_lock_irqsave(&imem->lock, flags) can be taken
lock_free(l, t) == l = NULL

NoCall == [write |-> FALSE, base |-> 0, a |-> 0, data |-> 0, target |-> 0]

\* values the window register can hold after a power transition
RegResets == {0, 16}

\* values the window register takes while the live objects are accessed
WindowRegs ==
    RegResets \cup
    {window_reg(window_base(objs[o].mem_offset + off)) :
        o \in {x \in DOMAIN objs : objs[x] # NoObj}, off \in AccessOffsets}

\* the GPU addresses at which an access to address w can land: its own, and
\* the same offset in every other window the register can point at
Cells(w) == {pramin_target(r, window_addr(w)) : r \in WindowRegs}

\* the raw 32-bit accesses at 0x700000 + addr; memory is followed at the
\* cells of the watched address, the rest of it is not looked at
mem_read(mem, g) == IF g \in DOMAIN mem THEN mem[g] ELSE 0
mem_write(mem, g, v) == IF g \in DOMAIN mem THEN [mem EXCEPT ![g] = v] ELSE mem

Quiescent == \A t \in Threads : pc[t] = "idle"

NoTrace == [valid |-> FALSE, n |-> 0, repoints |-> 0, windows |-> 0,
            pages |-> 0, prev |-> 0, first |-> "none"]

\* the trace after one more access to address g enters
trace_enter(tr, g, repoint) ==
    [tr EXCEPT
        !.valid = tr.valid /\ tr.n < MaxTrace,
        !.n = IF tr.valid /\ tr.n < MaxTrace THEN tr.n + 1 ELSE 0,
        !.repoints = IF tr.valid /\ tr.n < MaxTrace THEN tr.repoints ELSE 0,
        !.windows = IF tr.valid /\ tr.n < MaxTrace
                    THEN tr.windows +
                         (IF tr.n > 0 /\ window_base(tr.prev) # window_base(g)
                          THEN 1 ELSE 0)
                    ELSE 0,
        !.pages = IF tr.valid /\ tr.n < MaxTrace
                  THEN tr.pages +
                       (IF tr.n > 0 /\ AddrShr(tr.prev, PAGE_SHIFT) # AddrShr(g, PAGE_SHIFT)
                        THEN 1 ELSE 0)
                  ELSE 0,
        !.prev = IF tr.valid /\ tr.n < MaxTrace THEN g ELSE 0,
        !.first = IF tr.first = "pending"
                  THEN (IF repoint THEN "repointed" ELSE "skipped")
                  ELSE tr.first]

\* rd32/wr32 up to the test of the cached window, under the lock
Enter(t) ==
    /\ pc[t] = "idle"
    /\ ~suspended
    /\ lock_free(lock, t)
    /\ \E o \in Live, off \in AccessOffsets, w \in BOOLEAN, v \in Vals :
          LET g == objs[o].mem_offset + off
              rp == needs_repoint(addr, window_base(g))
          IN  /\ off < objs[o].size
              /\ w \/ v = 1
              /\ lock' = t
              /\ loc' = [loc EXCEPT ![t] =
                            [write |-> w, base |-> window_base(g),
                             a |-> window_addr(g),
                             data |-> IF w THEN v ELSE 0, target |-> g]]
              /\ pc' = [pc EXCEPT ![t] = IF rp THEN "repoint" ELSE "access"]
              /\ trace' = trace_enter(trace, g, rp)
    /\ UNCHANGED <<addr, reg1700, watch, vram, suspended, shadow, ret32>>
    /\ UNCHANGED <<cfgvars, allocvars, dtorvars, failed, othervars>>

\* nvkm_wr32(device, 0x001700, base >> 16)
Repoint(t) ==
    /\ pc[t] = "repoint"
    /\ reg1700' = window_reg(loc[t].base)
    /\ pc' = [pc EXCEPT ![t] = "store"]
    /\ trace' = [trace EXCEPT !.repoints = IF trace.valid THEN @ + 1 ELSE @]
    /\ UNCHANGED <<addr, watch, vram, lock, loc, suspended, shadow, ret32>>
    /\ UNCHANGED <<cfgvars, allocvars, dtorvars, failed, othervars>>

\* imem->addr = base
Store(t) ==
    /\ pc[t] = "store"
    /\ addr' = loc[t].base
    /\ pc' = [pc EXCEPT ![t] = "access"]
    /\ UNCHANGED <<reg1700, watch, vram, lock, loc, suspended, shadow, ret32,
                   trace>>
    /\ UNCHANGED <<cfgvars, allocvars, dtorvars, failed, othervars>>

\* the data access at 0x700000 + addr, and the unlock
Access(t) ==
    /\ pc[t] = "access"
    /\ LET g == pramin_target(reg1700, loc[t].a)
       IN  IF loc[t].write
           THEN /\ vram' = mem_write(vram, g, loc[t].data)
                /\ shadow' = IF loc[t].target = watch
                             THEN loc[t].data ELSE shadow
                /\ ret32' = ret32
           ELSE /\ ret32' = IF loc[t].target = watch /\ shadow # 0
                             THEN [data |-> mem_read(vram, g),
                                   expect |-> shadow]
                             ELSE ret32
                /\ UNCHANGED <<vram, shadow>>
    /\ lock' = IF lock = t THEN NULL ELSE lock
    /\ pc' = [pc EXCEPT ![t] = "idle"]
    /\ loc' = [loc EXCEPT ![t] = NoCall]
    /\ UNCHANGED <<addr, reg1700, watch, suspended, trace>>
    /\ UNCHANGED <<cfgvars, allocvars, dtorvars, failed, othervars>>

\* gk20a_instmem_fini
Fini ==
    /\ ~suspended
    /\ addr' = SENTINEL
    /\ suspended' = TRUE
    /\ trace' = [NoTrace EXCEPT !.valid = Quiescent, !.first = "pending"]
    /\ UNCHANGED <<reg1700, watch, vram, lock, pc, loc, shadow, ret32>>
    /\ UNCHANGED <<cfgvars, allocvars, dtorvars, failed, othervars>>

\* the device is powered up again: the window register is reset
Resume ==
    /\ suspended
    /\ Quiescent
    /\ suspended' = FALSE
    /\ reg1700' \in RegResets
    /\ UNCHANGED <<addr, watch, vram, lock, pc, loc, shadow, ret32, trace>>
    /\ UNCHANGED <<cfgvars, allocvars, dtorvars, failed, othervars>>

(* ------------------------------------------------------------------ *)
(* nv40_instmem_ctor                                                   *)
(* ------------------------------------------------------------------ *)
NoNv40 == [pc |-> "absent"]

\* device->chipset of the NV4x family: 0x40 .. 0x44, 0x4a
Nv40Chipsets == {64, 65, 66, 67, 68, 74}

\* values of register 0x001540: every pattern of its bits 8..15
Nv40Regs == {b * 256 : b \in 0..255}

\* hweight8: the number of bits set in a byte
hweight8(x) == Cardinality({b \in 0..7 : (x \div Pow2(b)) % 2 = 1})

\* vs = hweight8((nvkm_rd32(device, 0x001540) & 0x0000ff00) >> 8)
nv40_vs(reg) == hweight8((reg \div 256) % 256)

\* a rounding that leaves its argument as it is
round_up_none(x, y) == x

\* round_up(x, y) of the kernel, y a power of two
round_up(x, y) == ((x + (y - 1)) \div y) * y

\* imem->base.reserved as the constructor computes it; the largest value,
\* 0x82a000, is far from the end of u32
nv40_reserved(chipset, gr44, vs) ==
    LET ctx == IF chipset = 64 THEN 27296 * vs
               ELSE IF chipset < 67 THEN 20224 * vs
               ELSE IF gr44 THEN 18816 * vs
               ELSE 19008 * vs
    IN  round_up((ctx + 16 * 1024) * 32 + 512 * 1024 + 512 * 1024, 4096)

\* the four reservations of the constructor, in its order: the vbios
\* image, RAMHT, RAMRO and RAMFC
Nv40Carves ==
    <<[name |-> "vbios", size |-> 65536], [name |-> "ramht", size |-> 32768],
      [name |-> "ramro", size |-> 32768], [name |-> "ramfc", size |-> 131072]>>

\* nvkm_mm_init(&imem->heap, 0, length, 1)
nv40_mm_init(length) == [length |-> length, nodes |-> {}]

\* offsets at which size bytes fit in the heap, aligned to align: the start
\* of the heap and the aligned ends of the nodes, where nothing is in the way
nv40_mm_fits(heap, size, align) ==
    {c \in {0} \cup {round_up(n.offset + n.length, align) : n \in heap.nodes} :
        /\ c + size <= heap.length
        /\ \A n \in heap.nodes :
               c + size <= n.offset \/ n.offset + n.length <= c}

\* nvkm_gpuobj_new / nvkm_ramht_new on the instmem: size bytes of the heap,
\* first fit in address order, an alignment of 0 standing for 1
nvkm_gpuobj_new(heap, name, size, align) ==
    LET fits == nv40_mm_fits(heap, size, IF align = 0 THEN 1 ELSE align)
    IN  IF fits = {}
        THEN [ret |-> "ENOSPC", heap |-> heap]
        ELSE [ret |-> "OK",
              heap |-> [heap EXCEPT !.nodes = @ \cup
                          {[name |-> name, length |-> size,
                            offset |-> CHOOSE c \in fits :
                                          \A d \in fits : c <= d]}]]

\* nv40_instmem_ctor up to nvkm_mm_init: the BAR is mapped, the reserved
\* capacity computed and the heap constructed over it
Nv40Reserve ==
    /\ nv40.pc = "new"
    /\ nv40' = IF ~nv40.bar_maps
               THEN [nv40 EXCEPT !.pc = "done", !.ret = "EFAULT"]
               ELSE [nv40 EXCEPT
                        !.pc = "carve",
                        !.iomem = 1,
                        !.reserved = nv40_reserved(nv40.chipset, nv40.gr44,
                                                   nv40_vs(nv40.reg1540)),
                        !.heap = nv40_mm_init(
                                     nv40_reserved(nv40.chipset, nv40.gr44,
                                                   nv40_vs(nv40.reg1540)))]
    /\ UNCHANGED <<cfgvars, allocvars, winvars, dtorvars, failed, wfb>>

\* the next of the four reservations, or the return of the constructor
Nv40Carve ==
    /\ nv40.pc = "carve"
    /\ \E res \in {nvkm_gpuobj_new(nv40.heap, Nv40Carves[nv40.n + 1].name,
                                   Nv40Carves[nv40.n + 1].size, 0)} :
           nv40' = IF res.ret # "OK"
                   THEN [nv40 EXCEPT !.pc = "done", !.ret = res.ret]
                   ELSE [nv40 EXCEPT
                            !.heap = res.heap,
                            !.n = @ + 1,
                            !.pc = IF nv40.n + 1 = Len(Nv40Carves)
                                   THEN "done" ELSE "carve"]
    /\ UNCHANGED <<cfgvars, allocvars, winvars, dtorvars, failed, wfb>>

(* ------------------------------------------------------------------ *)
(* nv_wfb                                                              *)
(* ------------------------------------------------------------------ *)
NoWfb == [pc |-> "absent"]

\* the NULL of a mapping pointer
NoMap == [dev |-> "none", bar |-> 0, page |-> SENTINEL]

NV_DEVICE_INFO_V0_CURIE == 5
NV_DEVICE_INFO_V0_MAXWELL == 9

\* the devices a run of the tool may hold
WfbDevices == {"A", "B"}

\* device->info.family: the two ends of the supported range and the
\* families next to them
WfbFamilies ==
    {NV_DEVICE_INFO_V0_CURIE - 1, NV_DEVICE_INFO_V0_CURIE,
     NV_DEVICE_INFO_V0_MAXWELL, NV_DEVICE_INFO_V0_MAXWELL + 1}

\* offsets of writes: two in each of the first two pages, one in the third
WfbOffsets == {Bytes(0), Bytes(16), Bytes(4096), Bytes(4112), Bytes(8192)}

\* page = offset & ~(PAGE_SIZE - 1)
wfb_page(offset) == offset - (offset % PAGE_SIZE)

\* addr = offset & (PAGE_SIZE - 1)
wfb_addr(offset) == offset % PAGE_SIZE

\* a family check that lets every family through
wfb_unsupported_none(family) == FALSE

\* the family check at the head of nv_wfb
wfb_unsupported(family) ==
    \/ family < NV_DEVICE_INFO_V0_CURIE
    \/ family > NV_DEVICE_INFO_V0_MAXWELL

\* an iounmap that leaves the mapping in place
iounmap_leaks(live, m) == live

\* if (map) iounmap(map)
iounmap(live, m) == IF m # NoMap THEN live \ {m} ELSE live

\* ioremap(pci_resource_start(pdev, 2 or 3) + page, PAGE_SIZE): BAR 2 when
\* it has a length, BAR 3 otherwise; NULL when the mapping fails
ioremap(d, bar2_len, page, ok) ==
    IF ok
    THEN [dev |-> d, bar |-> IF bar2_len # 0 THEN 2 ELSE 3, page |-> page]
    ELSE NoMap

NoWfbCall == [op |-> "none"]

\* nv_wfb(device, offset, data): one call, from its entry to its return or
\* to the exit of the process
nv_wfb ==
    /\ wfb.pc = "running"
    /\ \E d \in WfbDevices, offset \in WfbOffsets, data \in 0..1,
          ok \in BOOLEAN :
         LET page == wfb_page(offset)
             at   == wfb_addr(offset)
             pre  == [map |-> wfb.map, map_page |-> wfb.map_page,
                      live |-> wfb.live]
             call == [op |-> "store", dev |-> d, offset |-> offset,
                      data |-> data, pre |-> pre, created |-> FALSE,
                      via |-> wfb.map, at |-> at]
         IN
         IF wfb_unsupported(wfb.family[d])
         THEN wfb' = [wfb EXCEPT !.pc = "exited",
                                 !.call = [call EXCEPT !.op = "unsupported"]]
         ELSE IF wfb.map_page = page
         THEN wfb' = [wfb EXCEPT !.call = call, !.devs = @ \cup {d}]
         ELSE
           LET m == ioremap(d, wfb.bar2_len[d], page, ok) IN
           IF m = NoMap
           THEN wfb' = [wfb EXCEPT !.pc = "exited",
                                   !.map = NoMap,
                                   !.live = iounmap(wfb.live, wfb.map),
                                   !.call = [call EXCEPT !.op = "map failed"]]
           ELSE wfb' = [wfb EXCEPT !.map = m,
                                   !.map_page = page,
                                   !.live = iounmap(wfb.live, wfb.map)
                                                \cup {m},
                                   !.devs = @ \cup {d},
                                   !.call = [call EXCEPT !.created = TRUE,
                                                         !.via = m]]
    /\ UNCHANGED <<cfgvars, allocvars, winvars, dtorvars, failed, nv40>>

(* ------------------------------------------------------------------ *)
(* Specifications                                                      *)
(* ------------------------------------------------------------------ *)
NoRead == [data |-> 0, expect |-> 0]


\* gk20a_instmem_ctor: the state of a zeroed gk20a_instmem, with the
\* IOMMU fields copied from the device when a domain was probed
InitConfig ==
    /\ domain \in BOOLEAN
    /\ iommu_pgshift \in (IF domain THEN IommuPgShifts ELSE {0})
    /\ heap_pages \in (IF domain THEN HeapSizes ELSE {0})

InitMutex ==
    /\ failed = NoObj
    /\ mm_mutex = NULL
    /\ teardown = [t \in Threads |-> NoTeardown]

InitWindow ==
    /\ addr = 0
    /\ lock = NULL
    /\ pc = [t \in Threads |-> "idle"]
    /\ loc = [t \in Threads |-> NoCall]
    /\ suspended = FALSE
    /\ shadow = 0
    /\ ret32 = NoRead
    /\ trace = NoTrace

InitIdle ==
    /\ nv40 = NoNv40
    /\ wfb = NoWfb

InitGk20a ==
    /\ InitConfig
    /\ mm = {}
    /\ phys = {}
    /\ iommu = EmptyTable
    /\ dma = {}
    /\ objs = [o \in ObjIds |-> NoObj]
    /\ last = NoOp
    /\ watch = 0
    /\ vram = [c \in Cells(watch) |-> 0]
    /\ reg1700 = 0
    /\ InitWindow
    /\ InitMutex

Init == InitGk20a /\ InitIdle

Next == Create \/ Destroy

Spec == Init /\ [][Next]_vars

\* Two objects created one after the other on the configured backend:
\* the state in which the accesses of SpecWin start.
TwoCreated(dom, pgs, s1, s2, h1, h2) ==
    LET n1 == AddrShr(round_to_page(s1), PAGE_SHIFT)
        n2 == AddrShr(round_to_page(s2), PAGE_SHIFT)
        i1 == gk20a_instobj_ctor_iommu({}, {}, EmptyTable, pgs, n1,
                                       PAGE_SIZE, NoFault)
        i2 == gk20a_instobj_ctor_iommu(i1.mm, i1.phys, i1.iommu, pgs, n2,
                                       PAGE_SIZE, NoFault)
        d1 == gk20a_instobj_ctor_dma({}, n1, PAGE_SIZE, NoFault, h1)
        d2 == gk20a_instobj_ctor_dma(d1.dma, n2, PAGE_SIZE, NoFault, h2)
    IN  IF dom
        THEN [mm |-> i2.mm, phys |-> i2.phys, iommu |-> i2.iommu, dma |-> {},
              ok |-> i1.ret = "OK" /\ i2.ret = "OK",
              o1 |-> IF i1.ret = "OK"
                     THEN finish_node(i1.node, round_to_page(s1)) ELSE NoObj,
              o2 |-> IF i2.ret = "OK"
                     THEN finish_node(i2.node, round_to_page(s2)) ELSE NoObj]
        ELSE [mm |-> {}, phys |-> {}, iommu |-> EmptyTable, dma |-> d2.dma,
              ok |-> d1.ret = "OK" /\ d2.ret = "OK",
              o1 |-> IF d1.ret = "OK"
                     THEN finish_node(d1.node, round_to_page(s1)) ELSE NoObj,
              o2 |-> IF d2.ret = "OK"
                     THEN finish_node(d2.node, round_to_page(s2)) ELSE NoObj]

InitWin ==
    /\ InitConfig
    /\ \E h1 \in {Bytes(1044480)}, h2 \in {Bytes(1040384)} :
          LET c == TwoCreated(domain, iommu_pgshift, Bytes(8192), Bytes(4096), h1, h2)
          IN  /\ c.ok
              /\ mm = c.mm
              /\ phys = c.phys
              /\ iommu = c.iommu
              /\ dma = c.dma
              /\ objs = [o \in ObjIds |->
                            IF o = 1 THEN c.o1
                            ELSE IF o = 2 THEN c.o2 ELSE NoObj]
    /\ last = NoOp
    /\ \E o \in {1, 2}, off \in AccessOffsets :
          /\ off < objs[o].size
          /\ watch = objs[o].mem_offset + off
    /\ vram = [c \in Cells(watch) |-> 0]
    /\ reg1700 \in RegResets
    /\ InitWindow
    /\ InitMutex
    /\ InitIdle

NextWin ==
    \/ \E t \in Threads : Enter(t)
    \/ \E t \in Threads : Repoint(t)
    \/ \E t \in Threads : Store(t)
    \/ \E t \in Threads : Access(t)
    \/ Fini
    \/ Resume

SpecWin == InitWin /\ [][NextWin]_vars

\* The objects of SpecWin, before any of them was accessed: the state in
\* which the threads of SpecDtor start to destroy them.
InitDtor ==
    /\ InitConfig
    /\ \E h1 \in {Bytes(1044480)}, h2 \in {Bytes(1040384)} :
          LET c == TwoCreated(domain, iommu_pgshift, Bytes(8192), Bytes(4096), h1, h2)
          IN  /\ c.ok
              /\ mm = c.mm
              /\ phys = c.phys
              /\ iommu = c.iommu
              /\ dma = c.dma
              /\ objs = [o \in ObjIds |->
                            IF o = 1 THEN c.o1
                            ELSE IF o = 2 THEN c.o2 ELSE NoObj]
    /\ last = NoOp
    /\ watch = 0
    /\ vram = [c \in Cells(watch) |-> 0]
    /\ reg1700 = 0
    /\ InitWindow
    /\ InitMutex
    /\ InitIdle

\* destroys that run statement by statement in every thread
NextDtor ==
    \/ \E t \in Threads : DtorEnter(t)
    \/ \E t \in Threads : DtorLock(t)
    \/ \E t \in Threads : DtorUntag(t)
    \/ \E t \in Threads : DtorUnmap(t)
    \/ \E t \in Threads : DtorFree(t)
    \/ \E t \in Threads : DtorRelease(t)
    \/ \E t \in Threads : DtorUnlock(t)

SpecDtor == InitDtor /\ [][NextDtor]_vars

\* creates that fail, each followed by the destroy of its object
NextFail == CreateFailing \/ DestroyFailed

SpecFail == Init /\ [][NextFail]_vars

\* an NV4x device, nvkm_instmem_create done, before its BAR is mapped
InitNv40 ==
    /\ InitGk20a
    /\ ~domain
    /\ wfb = NoWfb
    /\ nv40 \in [pc : {"new"}, chipset : Nv40Chipsets, gr44 : BOOLEAN,
                  reg1540 : Nv40Regs, bar_maps : BOOLEAN, iomem : {NULL},
                  reserved : {0}, heap : {nv40_mm_init(0)}, n : {0},
                  ret : {"OK"}]

NextNv40 == Nv40Reserve \/ Nv40Carve

SpecNv40 == InitNv40 /\ [][NextNv40]_vars

\* the tool before its first write: no mapping, the cached page ~0
InitWfb ==
    /\ InitGk20a
    /\ ~domain
    /\ nv40 = NoNv40
    /\ wfb \in [pc : {"running"}, map : {NoMap}, map_page : {SENTINEL},
                 live : {{}}, devs : {{}}, call : {NoWfbCall},
                 family : [WfbDevices -> WfbFamilies],
                 bar2_len : [WfbDevices -> {0, PAGE_SIZE}]]

NextWfb == nv_wfb

SpecWfb == InitWfb /\ [][NextWfb]_vars

(* ------------------------------------------------------------------ *)
(* The arithmetic of gk20a_instobj_ctor (specification SpecArith)      *)
(* ------------------------------------------------------------------ *)
\* args->size and args->align over the whole of u32, in units of 16 bytes
\* rounded up: around one page, around two pages, and up to 0xfffffff0
RoundSizes ==
    {0, 1, 255, 256, 257, 511, 512, 513, Pow2(27),
     Pow2(28) - 257, Pow2(28) - 256, Pow2(28) - 255, Pow2(28) - 1}
RoundAligns ==
    {0, 1, 256, 257, 512, 4096, Pow2(28) - 256, Pow2(28) - 255, Pow2(28) - 1}

\* gk20a_instobj_ctor up to the call of the backend: the rounding of size
\* and align and the page count handed to the backend
Round ==
    /\ \E size \in RoundSizes, align \in RoundAligns :
           last' = [args_size |-> size, args_align |-> align,
                    size |-> round_to_page(size)] @@
                   [NoOp EXCEPT !.op = "round",
                                !.kind = ctor_backend(domain),
                                !.align = round_to_page(align),
                                !.npages = AddrShr(round_to_page(size),
                                                   PAGE_SHIFT)]
    /\ UNCHANGED <<mm, phys, iommu, dma, objs>>
    /\ UNCHANGED <<cfgvars, winvars, dtorvars, failed, othervars>>

\* values of PAGE_SHIFT the kernel can be built with
HostPageShifts == {12, 14, 16}

\* args->size of the creates whose units are followed
UnitSizes == {Bytes(b) : b \in {16, 4096, 8192, 16384, 65536, 131072}}

\* size = max(roundup(args->size, PAGE_SIZE), PAGE_SIZE), PAGE_SHIFT being ps
page_round(x, ps) == Max(roundup(x, AddrShl(1, ps)), AddrShl(1, ps))

\* the npages handed to the backend: size >> PAGE_SHIFT
ctor_npages(size, ps) == AddrShr(size, ps)

\* node->mem->size = size >> 12
mem_size_of(size) == AddrShr(size, SMALL_PAGE_SHIFT)

\* dma_alloc_attrs(dev, npages << PAGE_SHIFT, ...)
dma_alloc_bytes(npages, ps) == AddrShl(npages, ps)

\* dma_free_attrs(dev, _node->mem->size << PAGE_SHIFT, ...)
dma_free_bytes(mem_size, ps) == AddrShl(mem_size, ps)

\* for (i = 0; i < _node->mem->size; i++): pages unmapped and freed
dtor_loop_count(mem_size) == mem_size

\* the quantities a create acquires and the destroy of the object releases,
\* in a kernel built with PAGE_SHIFT = ps
Units ==
    /\ \E ps \in HostPageShifts, size \in UnitSizes :
           LET sz == page_round(size, ps)
               np == ctor_npages(sz, ps)
           IN  last' = [page_shift |-> ps, size |-> sz,
                        pages_made |-> np,
                        pages_undone |-> dtor_loop_count(mem_size_of(sz)),
                        alloc_bytes |-> dma_alloc_bytes(np, ps),
                        free_bytes |-> dma_free_bytes(mem_size_of(sz), ps)]
                       @@ [NoOp EXCEPT !.op = "units",
                                       !.kind = ctor_backend(domain),
                                       !.npages = np]
    /\ UNCHANGED <<mm, phys, iommu, dma, objs>>
    /\ UNCHANGED <<cfgvars, winvars, dtorvars, failed, othervars>>

NextArith == Round \/ Units

SpecArith == Init /\ [][NextArith]_vars

(* ------------------------------------------------------------------ *)
(* Claims about create and destroy (specification Spec)               *)
(* ------------------------------------------------------------------ *)
\* free space of the Region Heap, in IOMMU pages
HeapFree(used) == heap_pages - Cardinality(used)

\* the last operation was a create on the IommuMapped backend
IommuCreate == last.op = "create" /\ last.kind = "iommu"

\* ... into which no fault was injected, and for which the page allocator
\* had pages enough
PlainIommuCreate ==
    /\ IommuCreate
    /\ last.inj = NoFault
    /\ last.npages <= MaxPhys - Cardinality(last.pre.phys)

\* heap, pages and mappings are exactly what they were before the call
Untouched ==
    /\ mm = last.pre.mm
    /\ phys = last.pre.phys
    /\ iommu = last.pre.iommu

\* C1: a successful create immediately followed by the destroy of the
\* object leaves the free space of the heap, the number of outstanding
\* pages, the number of live IOMMU mappings and the number of outstanding
\* coherent buffers as they were before the create, on both backends.
C1_CreateDestroyRestores ==
    last.op = "create_destroy" =>
        /\ HeapFree(mm) = HeapFree(last.pre.mm)
        /\ Cardinality(phys) = Cardinality(last.pre.phys)
        /\ Cardinality(DOMAIN iommu) = Cardinality(DOMAIN last.pre.iommu)
        /\ Cardinality(dma) = Cardinality(last.pre.dma)

\* C2 as stated: an IommuMapped create succeeds whenever the pages held by
\* the live objects plus its own do not exceed the capacity of the heap,
\* and otherwise fails with the heap-exhausted error and without effect.
C2_CapacityDecides ==
    PlainIommuCreate =>
        /\ last.pre.held + last.npages <= heap_pages => last.ret = "OK"
        /\ last.pre.held + last.npages > heap_pages =>
               last.ret = "ENOSPC" /\ Untouched

\* C2 amended: an IommuMapped create succeeds whenever the heap holds a
\* free run of as many IOMMU pages as it asks, starting at a multiple of
\* its alignment; when there is no such run (as when the pages would exceed
\* the capacity) it fails with the heap-exhausted error and leaves heap,
\* pages and mappings exactly as they were before the call.
C2_FreeRunDecides ==
    PlainIommuCreate =>
        LET runs == mm_fits(last.pre.mm, last.npages,
                            AddrShr(last.align, iommu_pgshift))
        IN  /\ runs # {} => last.ret = "OK"
            /\ runs = {} => last.ret = "ENOSPC" /\ Untouched
            /\ last.pre.held + last.npages > heap_pages => runs = {}

\* C2 witness: a create fails for want of space although the pages held
\* and its own fit the capacity, and the pages it had got are back
C2_FragmentedFailure ==
    /\ PlainIommuCreate
    /\ last.ret = "ENOSPC"
    /\ last.pre.held + last.npages <= heap_pages
    /\ last.pre.held > 0
    /\ Untouched

\* C5: when the map call for page i of an IommuMapped create fails, exactly
\* the i addresses that were mapped are unmapped, none of them remains
\* mapped, and the reserved range is back in the heap, whatever the IOMMU
\* page shift.
C5_UnwindUnmapsWhatWasMapped ==
    (IommuCreate /\ last.ret = "EMAP") =>
        /\ Len(last.unmapped) = last.inj.idx
        /\ Range(last.unmapped) = Range(last.mapped)
        /\ \A a \in Range(last.mapped) :
               iommu_span(a, PAGE_SIZE, iommu_pgshift) \cap DOMAIN iommu = {}
        /\ mm = last.pre.mm

\* C6 as stated: when the N-th map call of an IommuMapped create fails,
\* exactly N-1 pages have been freed when the error is returned.
C6_FreesMappedPagesOnly ==
    (IommuCreate /\ last.ret = "EMAP") =>
        Len(last.freed) = last.inj.idx

\* C6 amended: when the N-th map call of an IommuMapped create fails, every
\* page of the request has been freed when the error is returned (all 4 of
\* a 4-page request failing at index 2), and no page it allocated is
\* outstanding.
C6_FreesEveryPage ==
    (IommuCreate /\ last.ret = "EMAP") =>
        /\ Len(last.freed) = last.npages
        /\ Cardinality(Range(last.freed)) = last.npages
        /\ Range(last.freed) \cap phys = {}
        /\ phys = last.pre.phys

\* C6 witness: the 4-page request whose map call fails at index 2
C6_FourPagesFailAtTwo ==
    /\ IommuCreate
    /\ last.ret = "EMAP"
    /\ last.npages = 4
    /\ last.inj.idx = 2
    /\ Len(last.freed) = 4

\* C7: an IommuMapped create that returns an error has released all it
\* acquired: outstanding pages, live mappings and reserved heap pages are
\* as many as before the call, and a page allocation failing at index k
\* frees exactly the k pages it had got and reserves nothing.
C7_FailedCreateReleasesAll ==
    (IommuCreate /\ last.ret # "OK") =>
        /\ Cardinality(phys) = Cardinality(last.pre.phys)
        /\ Cardinality(DOMAIN iommu) = Cardinality(DOMAIN last.pre.iommu)
        /\ Cardinality(mm) = Cardinality(last.pre.mm)
        /\ last.ret = "ENOMEM" =>
               /\ Len(last.freed) =
                      alloc_stop(last.pre.phys, last.npages, last.inj)
               /\ last.reserved = 0

\* C10: the backend is chosen once: a create takes the IommuMapped path if
\* and only if a domain was configured, no operation changes the domain,
\* and a destroy takes the teardown path of the backend that created the
\* object.
C10_BackendChosenOnce ==
    [][/\ domain' = domain
       /\ last'.op = "create" => (last'.kind = "iommu") = domain
       /\ \A o \in ObjIds :
              /\ (objs[o] = NoObj /\ objs'[o] # NoObj) =>
                     (objs'[o].kind = "iommu") = domain
              /\ (objs[o] # NoObj /\ objs'[o] = NoObj) =>
                     /\ last'.op \in {"destroy", "create_destroy"}
                     /\ last'.obj = o
                     /\ last'.kind = objs[o].kind]_vars

\* C10 witness: an IommuMapped object was destroyed while another one,
\* created before it, is alive
C10_DestroyedBesideLive ==
    /\ last.op = "create_destroy"
    /\ last.kind = "iommu"
    /\ domain
    /\ \E o \in Live : objs[o].kind = "iommu"

\* IOMMU pages of the heap inside the ranges the live objects hold
LiveRanges ==
    UNION {{u \in 0..(heap_pages - 1) :
               /\ untag_offset(objs[o].r_offset, iommu_pgshift) <= u
               /\ u < untag_offset(objs[o].r_offset, iommu_pgshift)
                         + objs[o].r_length} :
           o \in {x \in Live : objs[x].kind = "iommu"}}

\* C11: a range is checked out of the heap exactly as long as its object
\* lives: destroy hands it back and nothing else does. In a heap of one
\* page a one-page create succeeds when no object is alive, is refused
\* with the heap-exhausted error and without effect while one is, and
\* succeeds again once that one was destroyed.
C11_ReleasedRangeReusable ==
    /\ mm = LiveRanges
    /\ (PlainIommuCreate /\ heap_pages = 1 /\ last.npages = 1) =>
           /\ last.pre.held = 0 => last.ret = "OK"
           /\ last.pre.held > 0 => last.ret = "ENOSPC" /\ Untouched
    /\ last.run = 3 => (mm = {} /\ Live = {})

\* C11 witness: in the heap of one page a create succeeded, a second one
\* was refused while the first object lived, the object was destroyed and
\* a create has succeeded again
C11_CreatedAgain ==
    /\ heap_pages = 1
    /\ last.run = 4
    /\ PlainIommuCreate
    /\ last.ret = "OK"
    /\ mm = {0}

\* C13: a ContiguousHost create whose buffer came back from the platform
\* allocator succeeds whether or not the bus address is a multiple of the
\* alignment asked; a misaligned address is only warned about, and the GPU
\* offset of the object is the bus address as it was returned.
C13_MisalignedStillCreated ==
    (last.op = "create" /\ last.kind = "dma" /\ last.handle # NULL) =>
        /\ last.ret = "OK"
        /\ last.warn = (last.handle % last.align # 0)
        /\ objs[last.obj] # NoObj
        /\ objs[last.obj].mem_offset = last.handle
        /\ objs[last.obj].addr = last.handle
        /\ \E b \in dma : b.handle = last.handle

\* C13 witness: an object was created at a bus address that is no multiple
\* of the 8 KiB alignment asked, with the warning
C13_CreatedMisaligned ==
    /\ last.op = "create"
    /\ last.kind = "dma"
    /\ last.ret = "OK"
    /\ last.warn
    /\ last.align = 2 * PAGE_SIZE
    /\ last.handle % last.align = PAGE_SIZE
    /\ objs[last.obj].mem_offset = last.handle

\* the live objects of the IommuMapped backend
LiveIommu == {o \in Live : objs[o].kind = "iommu"}

\* C15: whatever creates and destroys came before, no two live IommuMapped
\* objects hold overlapping GPU virtual ranges, no page belongs to two live
\* objects, and no create maps an IOMMU address that is mapped already, be
\* it by another object or by itself.
C15_NothingShared ==
    /\ \A o1, o2 \in LiveIommu :
           o1 # o2 =>
               /\ \/ objs[o1].mem_offset + objs[o1].size <= objs[o2].mem_offset
                  \/ objs[o2].mem_offset + objs[o2].size <= objs[o1].mem_offset
               /\ Range(objs[o1].pages) \cap Range(objs[o2].pages) = {}
    /\ IommuCreate =>
           \A i \in DOMAIN last.mapped :
               /\ iommu_span(last.mapped[i], PAGE_SIZE, iommu_pgshift)
                      \cap DOMAIN last.pre.iommu = {}
               /\ \A j \in 1..(i - 1) :
                      iommu_span(last.mapped[i], PAGE_SIZE, iommu_pgshift)
                      \cap iommu_span(last.mapped[j], PAGE_SIZE,
                                      iommu_pgshift) = {}

\* C17: every IOMMU page that is mapped lies inside a range that is
\* checked out of the heap: a create maps inside the range it reserved
\* only, and when a destroy or the unwinding of a failed create has handed
\* a range back, no page of it is mapped any more.
C17_MappedInsideReserved ==
    /\ DOMAIN iommu \subseteq mm
    /\ DOMAIN iommu \subseteq LiveRanges

C16_AllUnderMutex ==
    last.op = "teardown" => last.locked

\* C16 amended: the release of the range is executed while the calling
\* thread holds the mm mutex, and it is the only one: the tag is cleared
\* and every page is unmapped and freed before it, without the mutex.
C16_ReleaseUnderMutex ==
    last.op = "teardown" =>
        /\ last.step = "release" => last.locked
        /\ last.step \in {"untag", "unmap", "free"} => ~last.locked
        /\ \A t \in Threads :
               teardown[t].pc \in {"untag", "unmap", "free"} => mm_mutex # t

\* C16 witness: a thread releases its range under the mutex while another
\* one is unmapping and freeing the pages of its object
C16_ReleaseBesideUnmap ==
    /\ last.op = "teardown"
    /\ last.step = "release"
    /\ last.locked
    /\ \E t \in Threads :
           /\ teardown[t].pc \in {"unmap", "free"}
           /\ teardown[t].obj # last.obj
           /\ mm_mutex # t

(* ------------------------------------------------------------------ *)
(* Claims about failed creates (specification SpecFail)                *)
(* ------------------------------------------------------------------ *)
\* C20: the destroy of an object whose create failed, at whatever step,
\* returns, has read no field the failed create left unset (node->mem and
\* the regions list behind it), and releases nothing: heap, pages,
\* mappings and buffers are what the failed create left.
C20_DestroyAfterFailedCreate ==
    last.op = "destroy_failed" =>
        /\ last.outcome = "returns"
        /\ ~last.reads_unset
        /\ mm = last.pre.mm
        /\ phys = last.pre.phys
        /\ iommu = last.pre.iommu
        /\ dma = last.pre.dma

(* ------------------------------------------------------------------ *)
(* Claims about the arithmetic (specification SpecArith)               *)
(* ------------------------------------------------------------------ *)
\* x is the smallest multiple of the page size that is at least req and at
\* least one page
PageCeiling(x, req) ==
    /\ x % PAGE_SIZE = 0
    /\ x >= PAGE_SIZE
    /\ x >= req
    /\ x - PAGE_SIZE < req \/ x = PAGE_SIZE

\* C12: for every 32-bit size and alignment asked, the size of the object
\* is the smallest multiple of the page size that is at least the size
\* asked and at least one page (one page for a size of 0), the alignment
\* likewise, the backend is asked for size / PAGE_SIZE pages, and the size
\* of the object is never smaller than the size asked.
C12_RoundsUpToPages ==
    last.op = "round" =>
        /\ PageCeiling(last.size, last.args_size)
        /\ PageCeiling(last.align, last.args_align)
        /\ last.npages * PAGE_SIZE = last.size
        /\ last.args_size = 0 => last.size = PAGE_SIZE

\* C19: whatever host page size the kernel is built with, destroy releases
\* what create acquired: the teardown loop unmaps and frees as many pages
\* as the create allocated and mapped, so that it never indexes past the
\* page array, and the byte size handed back to the platform allocator is
\* the byte size the create asked of it.
C19_SameUnits ==
    last.op = "units" =>
        /\ last.pages_undone = last.pages_made
        /\ last.free_bytes = last.alloc_bytes

(* ------------------------------------------------------------------ *)
(* Claims about the PRAMIN window (specification SpecWin)              *)
(* ------------------------------------------------------------------ *)
\* C3: a read32 of an address returns the value the last write32 to that
\* address gave, whatever accesses to other addresses came in between.
C3_RoundTrip ==
    ret32.expect # 0 => ret32.data = ret32.expect

\* the accesses counted since the cache was invalidated have all returned
TraceComplete == trace.valid /\ trace.n >= 1 /\ Quiescent

\* C4 as stated: from an invalidated cache, the repoints of a trace are one
\* more than its consecutive accesses that lie in different pages.
C4_RepointPerPage ==
    TraceComplete => trace.repoints = 1 + trace.pages

\* C4 amended: from an invalidated cache, the repoints of a trace are one
\* more than its consecutive accesses that lie in different 1 MiB windows
\* (addresses that differ above bit 19): a trace that stays within one
\* window issues exactly one repoint, each crossing one more.
C4_RepointPerWindow ==
    TraceComplete => trace.repoints = 1 + trace.windows

\* C4 witness: three accesses in three pages of which the last two share
\* no window: two repoints
C4_ThreePagesTwoWindows ==
    /\ TraceComplete
    /\ trace.n = 3
    /\ trace.pages = 2
    /\ trace.windows = 1
    /\ trace.repoints = 2

\* C8: once fini has run the cached window is the sentinel, and the first
\* read32 or write32 after it repoints before its data access.
C8_FiniInvalidates ==
    /\ (suspended /\ Quiescent) => addr = SENTINEL
    /\ trace.first # "skipped"

\* C14: the cached window starts unset. From construction to the first
\* fini, every data access is made with the hardware window register
\* pointing at the window of its target, base 0 included, and whenever no
\* call is under way the cache is either unset or holds the base that was
\* written to the hardware window register.
C14_CacheStartsUnset ==
    trace.first = "none" =>
        /\ \A t \in Threads :
               pc[t] = "access" => reg1700 = window_reg(loc[t].base)
        /\ Quiescent => (addr = SENTINEL \/ reg1700 = window_reg(addr))

\* C9: every data access is made while the hardware window register holds
\* the window base of its own target, and the calls do not interleave
\* between the test of the cached window and the data access.
C9_WindowIsOwn ==
    /\ \A t \in Threads :
           pc[t] = "access" => reg1700 = window_reg(loc[t].base)
    /\ Cardinality({t \in Threads : pc[t] # "idle"}) <= 1

\* C21: the write of the sentinel by fini is atomic with respect to the
\* read32 and write32 calls under way: no call that tested the cached
\* window before that write stores its window base after it, so from the
\* write on, and still when fini and every call that overlapped it have
\* returned, the cached window is the sentinel.
C21_FiniAtomic ==
    suspended => addr = SENTINEL

(* ------------------------------------------------------------------ *)
(* Claims about the nv40 bring-up (specification SpecNv40)             *)
(* ------------------------------------------------------------------ *)
\* C22: for every chipset branch and every count of enabled units, the
\* reserved capacity the heap is constructed over is a multiple of 4096,
\* and the four reservations of 0x10000, 0x8000, 0x8000 and 0x20000 bytes
\* all succeed, in this order, at the offsets 0x00000, 0x10000, 0x18000
\* and 0x20000: consecutive, not overlapping and inside the capacity.
C22_FourReservationsFit ==
    (nv40.pc \in {"carve", "done"} /\ nv40.bar_maps) =>
        /\ nv40.reserved % 4096 = 0
        /\ nv40.reserved = nv40.heap.length
        /\ nv40.ret = "OK"
        /\ nv40.pc = "done" => nv40.n = 4
        /\ nv40.heap.nodes =
               {[name |-> Nv40Carves[k].name, length |-> Nv40Carves[k].size,
                 offset |-> CASE k = 1 -> 0
                              [] k = 2 -> 65536
                              [] k = 3 -> 98304
                              [] k = 4 -> 131072] : k \in 1..nv40.n}
        /\ \A a \in nv40.heap.nodes :
               /\ a.offset + a.length <= nv40.reserved
               /\ \A b \in nv40.heap.nodes :
                      a # b => (a.offset + a.length <= b.offset
                                \/ b.offset + b.length <= a.offset)

\* C22 witness: chipset 0x40 with one unit enabled, where the capacity
\* 0x255400 is rounded up to 0x256000, has made its four reservations
C22_RoundedAndCarved ==
    /\ nv40.pc = "done"
    /\ nv40.ret = "OK"
    /\ nv40.chipset = 64
    /\ nv40_vs(nv40.reg1540) = 1
    /\ nv40.reserved = 2449408
    /\ Cardinality(nv40.heap.nodes) = 4

(* ------------------------------------------------------------------ *)
(* Claims about nv_wfb (specification SpecWfb)                         *)
(* ------------------------------------------------------------------ *)
\* C23: while the writes go to one device, each store goes through the one
\* live mapping, which covers the page of the target offset (the cached
\* page is the offset with its in-page bits cleared), and lands at that
\* page plus the in-page offset; a mapping is created only when the page
\* of the target differs from the cached page; and at most one mapping is
\* live, the previous one being unmapped before the new one is created.
C23_OneWindowOneDevice ==
    Cardinality(wfb.devs) <= 1 =>
        /\ Cardinality(wfb.live) <= 1
        /\ wfb.map # NoMap => wfb.live = {wfb.map}
        /\ wfb.call.op = "store" =>
               /\ wfb.map # NoMap
               /\ wfb.call.via = wfb.map
               /\ wfb.map.dev = wfb.call.dev
               /\ wfb.map.page = wfb_page(wfb.call.offset)
               /\ wfb.map_page = wfb_page(wfb.call.offset)
               /\ wfb.map.page + wfb.call.at = wfb.call.offset
               /\ wfb.call.created =
                      (wfb.call.pre.map_page # wfb_page(wfb.call.offset))
               /\ wfb.call.created =>
                      wfb.call.pre.live \cap wfb.live = {}

\* C23 witness: a write to another page of the same device has replaced a
\* live mapping by a new one
C23_WindowMoved ==
    /\ Cardinality(wfb.devs) = 1
    /\ wfb.call.op = "store"
    /\ wfb.call.created
    /\ wfb.call.pre.map # NoMap
    /\ wfb.live = {wfb.map}

\* C24: a call for a device whose family is below CURIE or above MAXWELL
\* ends the process with an error before it touches anything: nothing is
\* unmapped, nothing is mapped, the cached page is as it was and nothing
\* is stored; and no call for such a device does anything else.
C24_UnsupportedTouchesNothing ==
    wfb.call.op # "none" =>
        /\ (wfb.call.op = "unsupported") =
               (\/ wfb.family[wfb.call.dev] < NV_DEVICE_INFO_V0_CURIE
                \/ wfb.family[wfb.call.dev] > NV_DEVICE_INFO_V0_MAXWELL)
        /\ wfb.call.op = "unsupported" =>
               /\ wfb.pc = "exited"
               /\ wfb.live = wfb.call.pre.live
               /\ wfb.map = wfb.call.pre.map
               /\ wfb.map_page = wfb.call.pre.map_page
               /\ ~wfb.call.created
               /\ wfb.call.dev \notin wfb.devs

\* C24 witness: a call for an unsupported device arrived while a mapping
\* of a supported one was live, and left it live
C24_RejectedWithWindowLive ==
    /\ wfb.call.op = "unsupported"
    /\ wfb.pc = "exited"
    /\ wfb.call.pre.map # NoMap
    /\ wfb.live = {wfb.map}

\* C25: every store of a write to a device goes through a mapping of that
\* device's own aperture at the page of the target, whatever device the
\* write before it went to.
C25_StoreThroughOwnAperture ==
    wfb.call.op = "store" =>
        /\ wfb.call.via.dev = wfb.call.dev
        /\ wfb.call.via.page = wfb_page(wfb.call.offset)

====
